---- MODULE Spec2Model ----
(***************************************************************************)
(* Capability pipeline of EvoAgent: the Executor (core/executor.py), the   *)
(* Integrator (core/integrator.py) and the Memory store (core/memory.py).  *)
(*                                                                         *)
(* Spec      one caller of one Integrator working on one capability name,  *)
(*           with failing writes and a running clock; every action is one  *)
(*           whole public call.                                            *)
(* SpecMem   the Memory calls save_tool and delete_tool on every name.     *)
(* SpecGate  Executor.test_tool applied to one tool dict.                  *)
(* SpecConc  several threads committing through one Memory object while    *)
(*           readers look at it and a second Memory is loaded from the     *)
(*           same directory; save_tool is split at the points where the    *)
(*           interpreter or the file system can interleave it.             *)
(* SpecPipeline  one tool dict evaluated by test_tool and handed to        *)
(*           integrate, under every pass_threshold.                        *)
(* SpecLoop  Executor.test_tool split at each call of run_code.            *)
(* SpecEngine, SpecEngineFair  Executor._run split at the temporary file,  *)
(*           the child process and the finally clause.                     *)
(* SpecLog   Memory.store on the bounded experience log.                   *)
(* SpecSelect  Memory.best_tool_for on one library and one task.           *)
(* SpecRank  save_tool calls followed by one best_tool_for.                *)
(* SpecLogConc  several threads calling Memory.store on one log.           *)
(* SpecCall  Executor.run_tool and Executor.run_code as whole calls.       *)
(* SpecRule  the actual_success rule of test_tool on one Result.           *)
(***************************************************************************)
EXTENDS Integers, Sequences, FiniteSets, TLC

\* ------------------------------------------------------------------ bounds
MaxClock == 1
MaxCases == 4
MaxGateCases == 2
NThreads == 2
MaxCapacity == 2
MaxRecorded == 5
MaxTextTokens == 2

\* ------------------------------------------------------- program constants
\* executor.py:111  "passed": rate >= 0.75
GatePct == 75
\* integrator.py:26  pass_threshold: float = 0.75
DefaultThresholdPct == 75
\* executor.py:33  config.get("timeout", 30)
DefaultTimeout == 30
\* memory.py:68  best_score >= 2
ScoreFloor == 2

\* --------------------------------------------------------------- universes
Names == {"a", "b"}
Versions == {1, 2}
None == "None"
Absent == "Absent"
\* values a caller may pass as pass_threshold (percent)
Thresholds == {50, DefaultThresholdPct, 100}

\* What the procedure named by func_name does on a given input mapping.  A
\* test case's input is identified with the behaviour the code shows on it.
\*   returns_success     returns {"success": True, ...}
\*   returns_failure     returns {"success": False, ...}
\*   returns_dict        returns a dict that has no "success" key
\*   returns_value       returns a value that is neither a dict nor None
\*   returns_none        returns None
\*   raises              raises an Exception
\*   prints_then_raises  writes a line to standard output, then raises
\*   hangs               never returns
\*   exits_with_object   prints a JSON object without "ok" and leaves the
\*                       interpreter (sys.exit, os._exit)
\*   exits_with_scalar   prints a JSON value that is no object and leaves
\*   exits_with_message  leaves with a message on standard error alone
\*   exits_silently      leaves with nothing on either stream
Behaviours == {"returns_success", "returns_failure", "returns_dict", "returns_value",
               "returns_none", "raises", "prints_then_raises", "hangs",
               "exits_with_object", "exits_with_scalar", "exits_with_message",
               "exits_silently"}

TestCases == [input : Behaviours, expect_success : BOOLEAN]

RECURSIVE SeqsUpTo(_, _)
SeqsUpTo(S, n) ==
    IF n = 0 THEN {<<>>}
    ELSE LET shorter == SeqsUpTo(S, n - 1)
         IN shorter \cup {Append(s, x) : s \in {t \in shorter : Len(t) = n - 1}, x \in S}

\* ---------------------------------------------------------------- Executor
\* Executor.timeout, in seconds (executor.py:33).
VARIABLE timeout

\* The value the harness hands to json.dumps as "output".
returned(beh) ==
    CASE beh = "returns_success" -> "dict_success_true"
      [] beh = "returns_failure" -> "dict_success_false"
      [] beh = "returns_dict"    -> "dict"
      [] beh = "returns_value"   -> "value"
      [] OTHER                   -> None

\* What the child left on standard output, stripped:
\*   none      nothing
\*   envelope  one JSON object with the keys the harness prints
\*   object    one JSON object without the key "ok"
\*   scalar    one JSON value that is not an object
\*   text      anything json.loads rejects (more than one line, plain text)
NoStdout == [kind |-> "none", ok |-> FALSE, output |-> None, error |-> Absent]

Envelope(ok, output, error) ==
    [kind |-> "envelope", ok |-> ok, output |-> output, error |-> error]

\* The child process of one run: whether it can be started, whether it
\* outlives the deadline, and what it leaves on standard output and standard
\* error.
\*   code that does not compile: the interpreter reports it on stderr
\*   try-branch:    print {"ok": True, "output": result}
\*   except-branch: print {"ok": False, "output": None, "error": str(e)}
Child(timed_out, stdout, stderr) ==
    [timed_out |-> timed_out, stdout |-> stdout, stderr |-> stderr]

_build_runner(code, beh) ==
    IF ~code.syntax_ok
    THEN Child(FALSE, NoStdout, "SyntaxError")
    ELSE CASE beh = "hangs" -> Child(TRUE, NoStdout, "")
           [] beh = "raises" -> Child(FALSE, Envelope(FALSE, None, "exception"), "")
           [] beh = "prints_then_raises" ->
                Child(FALSE, [NoStdout EXCEPT !.kind = "text"], "")
           [] beh = "exits_with_object" ->
                Child(FALSE, [NoStdout EXCEPT !.kind = "object"], "")
           [] beh = "exits_with_scalar" ->
                Child(FALSE, [NoStdout EXCEPT !.kind = "scalar"], "")
           [] beh = "exits_with_message" -> Child(FALSE, NoStdout, "message")
           [] beh = "exits_silently" -> Child(FALSE, NoStdout, "")
           [] OTHER -> Child(FALSE, Envelope(TRUE, returned(beh), Absent), "")

\* A Result dict.  has_ok and elapsed tell whether the keys "ok" and
\* "elapsed" are in it; output and error are Absent when their keys are not.
Result(ok, output, error) ==
    [has_ok |-> TRUE, ok |-> ok, output |-> output, error |-> error, elapsed |-> TRUE]

timeout_marker_plain(deadline) == "timed out"

\* executor.py:170
timeout_marker(deadline) == "timed out after " \o ToString(deadline) \o "s"

\* executor.py:156-166: the Result built from a child that ended in time.
parse_output(child) ==
    CASE child.stdout.kind = "envelope" ->
            Result(child.stdout.ok, child.stdout.output, child.stdout.error)
      [] child.stdout.kind = "object" ->
            [Result(FALSE, Absent, Absent) EXCEPT !.has_ok = FALSE]
      [] child.stdout.kind = "scalar" -> Result(FALSE, None, "TypeError")
      [] child.stdout.kind = "text" -> Result(TRUE, "text", None)
      [] OTHER ->
            Result(FALSE, None, IF child.stderr # "" THEN child.stderr ELSE "no output")

\* executor.py:146-172 with the script written and the interpreter found.
_run(child) ==
    IF child.timed_out
    THEN Result(FALSE, None, timeout_marker(timeout))
    ELSE parse_output(child)

run_code(code, beh) == _run(_build_runner(code, beh))

\* executor.py:38-52.  A tool dict may lack "code" or "func_name", or hold
\* an empty string there.
run_tool(tool, beh) ==
    IF ~tool.has_code \/ ~tool.has_func_name
    THEN [Result(FALSE, None, "tool missing code or func_name") EXCEPT !.elapsed = FALSE]
    ELSE _run(_build_runner(tool.code, beh))

_syntax_check(code) == code.syntax_ok

\* r.get(key)
get(value) == IF value = Absent THEN None ELSE value

is_dict(output) == output \in {"dict_success_true", "dict_success_false", "dict"}

actual_success_outer_only(r, expect_ok) ==
    r.ok /\ (get(r.output) # None \/ expect_ok = FALSE)

\* executor.py:88-92; output["success"] defaults to True.
actual_success(r, expect_ok) ==
    IF r.ok /\ is_dict(get(r.output))
    THEN r.output # "dict_success_false"
    ELSE r.ok /\ (get(r.output) # None \/ expect_ok = FALSE)

\* executor.py:87-103: the row test_tool records for test case tc from the
\* Result r that run_code returned for it.  r["ok"] on a Result without
\* that key raises KeyError out of test_tool (executor.py:88).
case_row(r, tc) ==
    LET actual_ok == actual_success(r, tc.expect_success)
    IN [ran |-> tc.input,
        raised |-> ~r.has_ok,
        passed |-> r.has_ok /\ (actual_ok = tc.expect_success),
        expected_success |-> tc.expect_success,
        actual_success |-> r.has_ok /\ actual_ok,
        output |-> get(r.output),
        error |-> get(r.error)]

\* One pass of the for-loop body of test_tool (executor.py:83-103); `ran` is
\* the input of the one run_code call the pass makes.
test_case_outcome(code, tc) == case_row(run_code(code, tc.input), tc)

RECURSIVE CountPassed(_)
CountPassed(results) ==
    IF results = <<>> THEN 0
    ELSE (IF Head(results).passed THEN 1 ELSE 0) + CountPassed(Tail(results))

\* passed / total as a whole percentage, rounded down: for a whole-percent
\* threshold t, passed / total >= t / 100 exactly when Pct(passed, total) >= t.
Pct(passed, total) == (100 * passed) \div total

\* A verdict dict, or, when raised, the exception that left test_tool; `calls`
\* are the inputs handed to run_code in the order of the invocations.
Verdict(passed, rate, results, error, calls) ==
    [raised |-> FALSE, passed |-> passed, pass_rate |-> rate, results |-> results,
     error |-> error, calls |-> calls]

\* The index of the first pass of the loop that raises, 0 when none does.
first_raise(outcomes) ==
    LET raising == {i \in 1..Len(outcomes) : outcomes[i].raised}
    IN IF raising = {} THEN 0 ELSE CHOOSE i \in raising : \A j \in raising : i <= j

\* The loop of test_tool, executor.py:80-117.
run_test_cases(tool) ==
    LET outcomes == [i \in 1..Len(tool.test_cases) |->
                        test_case_outcome(tool.code, tool.test_cases[i])]
        stop == first_raise(outcomes)
        passed == CountPassed(outcomes)
        total == Len(tool.test_cases)
        rate == Pct(passed, total)
    IN IF stop = 0
       THEN Verdict(rate >= GatePct, rate, outcomes, None,
                    [i \in 1..total |-> outcomes[i].ran])
       ELSE [Verdict(FALSE, 0, <<>>, "KeyError", [i \in 1..stop |-> outcomes[i].ran])
                EXCEPT !.raised = TRUE]

test_tool_strict(tool) ==
    IF ~_syntax_check(tool.code) \/ tool.test_cases = <<>>
    THEN Verdict(FALSE, 0, <<>>, "SyntaxError", <<>>)
    ELSE run_test_cases(tool)

test_tool_unchecked(tool) ==
    IF tool.test_cases = <<>>
    THEN Verdict(TRUE, 100, <<>>, None, <<>>)
    ELSE run_test_cases(tool)

test_tool(tool) ==
    IF ~_syntax_check(tool.code)
    THEN Verdict(FALSE, 0, <<>>, "SyntaxError", <<>>)
    ELSE IF tool.test_cases = <<>>
    THEN Verdict(TRUE, 100, <<>>, None, <<>>)
    ELSE run_test_cases(tool)

\* ------------------------------------------------------------------ Memory
\* A tool dict as the store keeps it: its name and its content (`ver` stands
\* for code, func_name, description, test_cases and version, which the store
\* carries verbatim).  The updated_at stamp of memory.py:46 is left out: no
\* code of the repository reads it.
\* A file of tools_dir or archive_dir holds nothing (no such file), is the
\* zero-length file left by an open that truncated it, holds the bytes of two
\* writers mixed, or holds one whole JSON record.
Rec(n, v) == [kind |-> "tool", name |-> n, ver |-> v]
NoTool == [kind |-> "none", name |-> "", ver |-> 0]
EmptyFile == [kind |-> "empty", name |-> "", ver |-> 0]
GarbledFile == [kind |-> "garbled", name |-> "", ver |-> 0]

\* path.write_text(...): the write completes, the open fails (permission:
\* the file is as before), or the open truncates and the write then fails
\* (disk full: the file is left empty).
WriteOutcomes == {"ok", "fail_open", "fail_write"}

\* Keys of archive_dir: the name and strftime("%Y%m%d_%H%M%S") of the call.
ArchiveKeys == Names \X (0..MaxClock)

VARIABLES
    threshold,   \* Integrator.threshold, in percent
    clock,       \* datetime.utcnow(), in whole seconds
    tools,       \* Memory._tools: name -> tool dict
    order,       \* insertion order of the keys of Memory._tools
    disk,        \* tools_dir: "<name>.json" -> file
    archive,     \* archive_dir: "<name>_<ts>.json" -> file
    admit,       \* history: how the dict now under a name was admitted
    saved,       \* history: the dict of the last completed save_tool per name
    last,        \* the last public call and what it returned
    pc,          \* SpecConc: where each thread is inside its commit
    cand,        \* SpecConc: the tool dict each thread commits
    seen,        \* SpecConc: what the last reader was handed for its name
    gate_tool,   \* SpecGate: the tool dict under evaluation
    verdict,     \* SpecGate: what test_tool returned for it
    run,         \* SpecEngine: one call of Executor._run, step by step
    loop,        \* SpecLoop: one call of Executor.test_tool, step by step
    max_experiences, \* maxlen of Memory._experiences
    experiences, \* Memory._experiences
    exp_file,    \* experiences.json
    recorded,    \* history: every experience ever recorded, oldest first
    library,     \* SpecSelect: the values of Memory._tools, in dict order
    task,        \* SpecSelect: the words of the task text
    best,        \* SpecSelect: what best_tool_for returned
    updated,     \* SpecRank: the names of Memory._tools, least recently saved first
    snap,        \* SpecLogConc: the list each thread hands to _save_json
    probe        \* SpecRule: one Result and the rows test_tool derives from it

aux_vars == <<updated, snap, probe>>

rest_vars == <<timeout, run, loop, max_experiences, experiences, exp_file, recorded,
               library, task, best, aux_vars>>

vars == <<threshold, clock, tools, order, disk, archive, admit, saved, last,
          pc, cand, seen, gate_tool, verdict, rest_vars>>

get_tool(name) == tools[name]
all_tools == [i \in 1..Len(order) |-> tools[order[i]]]

\* memory.py:44-45
stamp(tool) == Rec(tool.name, tool.code.ver)

\* memory.py:49 after memory.py:48: _tools is assigned only when the write
\* returned.
save_tool_tools_early(ts, tool, wr) ==
    [ts EXCEPT ![tool.name] = stamp(tool)]

save_tool_tools_keep(ts, tool, wr) ==
    IF wr = "ok" /\ ts[tool.name].kind # "tool"
    THEN [ts EXCEPT ![tool.name] = stamp(tool)]
    ELSE ts

save_tool_tools(ts, tool, wr) ==
    IF wr = "ok" THEN [ts EXCEPT ![tool.name] = stamp(tool)] ELSE ts

\* A dict keeps the position of a key it already has.
save_tool_order(ord, ts, tool, wr) ==
    IF wr = "ok" /\ ts[tool.name].kind # "tool" THEN Append(ord, tool.name) ELSE ord

\* memory.py:48 / memory.py:74: write_text on one file.
write_text(old, content, wr) ==
    CASE wr = "ok"         -> content
      [] wr = "fail_open"  -> old
      [] wr = "fail_write" -> EmptyFile

save_tool_disk(d, tool, wr) ==
    [d EXCEPT ![tool.name] = write_text(d[tool.name], stamp(tool), wr)]

\* memory.py:71-73
archive_key(rec, now) == <<rec.name, now>>

\* memory.py:70-75
archive_tool(arch, rec, now, wr) ==
    [arch EXCEPT ![archive_key(rec, now)] = write_text(arch[archive_key(rec, now)], rec, wr)]

RemoveName(ord, n) == SelectSeq(ord, LAMBDA x : x # n)

\* memory.py:109-117: every file that parses becomes an entry.
_load_tools(d) == [n \in Names |-> IF d[n].kind = "tool" THEN d[n] ELSE NoTool]

\* -------------------------------------------------------------- Integrator
\* integrator.py:49
integrate_accepts_all(test_result) == TRUE

integrate_accepts(test_result) == test_result.passed

\* Tool dicts handed to the Integrator in Spec.  Their test suites have no
\* case, or MaxCases cases of which the first p pass (the procedure returns a
\* success dict where success is expected) and the rest fail (it raises),
\* with all, all but one or all but two passing.
PassingCase == [input |-> "returns_success", expect_success |-> TRUE]
FailingCase == [input |-> "raises", expect_success |-> TRUE]
Suite(p) == [i \in 1..MaxCases |-> IF i <= p THEN PassingCase ELSE FailingCase]
Suites == {<<>>} \cup {Suite(p) : p \in (MaxCases - 2)..MaxCases}
Candidates(names) ==
    [name : names, code : [syntax_ok : BOOLEAN, ver : Versions], test_cases : Suites]

NoCall == [op |-> "none", name |-> "", ok |-> FALSE, raised |-> FALSE, tested |-> FALSE,
           passed |-> FALSE, write |-> "none", archive_write |-> "none"]

NoAdmit == [via |-> "none", rate |-> 0]

NoGateTool == [name |-> "", code |-> [syntax_ok |-> FALSE, ver |-> 0], test_cases |-> <<>>]
NoSeen == [by |-> "none", name |-> "", got |-> NoTool, during |-> FALSE]

\* No call of _run or test_tool under way, an empty experience log and an
\* empty library.
NoResult == [has_ok |-> FALSE, ok |-> FALSE, output |-> None, error |-> None,
             elapsed |-> FALSE]
NoRun == [pc |-> "idle", code |-> [syntax_ok |-> FALSE, ver |-> 0], beh |-> "",
          tmp |-> FALSE, child |-> "none", unlink |-> "none", result |-> NoResult]
NoLoop == [pc |-> "idle", calls |-> <<>>, results |-> <<>>]
NoExpFile == [kind |-> "none", entries |-> <<>>]
NoProbe == [pc |-> "none", r |-> NoResult, rows |-> <<>>]

InitAux ==
    /\ updated = <<>>
    /\ snap = [t \in 1..NThreads |-> <<>>]
    /\ probe = NoProbe

InitRest ==
    /\ timeout = DefaultTimeout
    /\ run = NoRun
    /\ loop = NoLoop
    /\ max_experiences = 0
    /\ experiences = <<>>
    /\ exp_file = NoExpFile
    /\ recorded = <<>>
    /\ library = <<>>
    /\ task = {}
    /\ best = <<>>
    /\ InitAux

InitStore ==
    /\ threshold \in Thresholds
    /\ clock = 0
    /\ tools = [n \in Names |-> NoTool]
    /\ order = <<>>
    /\ disk = [n \in Names |-> NoTool]
    /\ archive = [k \in ArchiveKeys |-> NoTool]
    /\ admit = [n \in Names |-> NoAdmit]
    /\ saved = [n \in Names |-> NoTool]
    /\ last = NoCall

Init ==
    /\ InitStore
    /\ pc = [t \in 1..NThreads |-> "idle"]
    /\ cand = [t \in 1..NThreads |-> NoTool]
    /\ seen = NoSeen
    /\ gate_tool = NoGateTool
    /\ verdict = <<>>
    /\ InitRest

other_vars == <<pc, cand, seen, gate_tool, verdict, rest_vars>>

Call(op, name) == [NoCall EXCEPT !.op = op, !.name = name]

\* The clock moves on between calls.
Tick ==
    /\ clock < MaxClock
    /\ clock' = clock + 1
    /\ last' = Call("tick", "")
    /\ UNCHANGED <<threshold, tools, order, disk, archive, admit, saved, other_vars>>

\* memory.py:43-50 as one call, with the history of what it committed.  An
\* exception of write_text leaves save_tool at memory.py:48.
SaveTool(tool, wr, how) ==
    /\ tools' = save_tool_tools(tools, tool, wr)
    /\ order' = save_tool_order(order, tools, tool, wr)
    /\ disk' = save_tool_disk(disk, tool, wr)
    /\ admit' = IF wr = "ok" THEN [admit EXCEPT ![tool.name] = how] ELSE admit
    /\ saved' = IF wr = "ok" THEN [saved EXCEPT ![tool.name] = stamp(tool)] ELSE saved

\* integrator.py:47-75, as integrate itself or as the tail call of upgrade.
\* `called` carries what the call did before it got here.  test_tool is
\* called once; an exception of it, or of save_tool, leaves integrate.
IntegrateBody(called, tool) ==
    \E test_result \in {test_tool(tool)} :
    LET tested == [called EXCEPT !.tested = TRUE, !.passed = test_result.passed]
    IN IF test_result.raised
       THEN /\ last' = [called EXCEPT !.tested = TRUE, !.raised = TRUE]
            /\ UNCHANGED <<tools, order, disk, admit, saved>>
       ELSE IF integrate_accepts(test_result)
       THEN \E wr \in WriteOutcomes :
            /\ SaveTool(tool, wr, [via |-> "gate", rate |-> test_result.pass_rate])
            /\ last' = [tested EXCEPT !.write = wr, !.ok = (wr = "ok"),
                                      !.raised = (wr # "ok")]
       ELSE /\ last' = tested
            /\ UNCHANGED <<tools, order, disk, admit, saved>>

Integrate(names) ==
    \E tool \in Candidates(names) :
        /\ IntegrateBody(Call("integrate", tool.name), tool)
        /\ UNCHANGED <<threshold, clock, archive, other_vars>>

\* integrator.py:77-85
ForceIntegrate(names) ==
    \E tool \in Candidates(names), wr \in WriteOutcomes :
        /\ tool.test_cases = <<>>
        /\ SaveTool(tool, wr, [via |-> "force", rate |-> 0])
        /\ last' = [Call("force_integrate", tool.name) EXCEPT
                        !.write = wr, !.ok = (wr = "ok"), !.raised = (wr # "ok")]
        /\ UNCHANGED <<threshold, clock, archive, other_vars>>

\* integrator.py:87-95
Upgrade(names) ==
    \E tool_name \in names, new_tool \in Candidates(names), aw \in WriteOutcomes :
        LET old == get_tool(tool_name)
            called == [Call("upgrade", new_tool.name) EXCEPT
                           !.archive_write = IF old.kind = "tool" THEN aw ELSE "none"]
        IN /\ old.kind # "tool" => aw = "ok"
           /\ archive' = IF old.kind = "tool"
                         THEN archive_tool(archive, old, clock, aw) ELSE archive
           /\ IF old.kind = "tool" /\ aw # "ok"
              THEN /\ last' = [called EXCEPT !.raised = TRUE]
                   /\ UNCHANGED <<tools, order, disk, admit, saved>>
              ELSE IntegrateBody(called, new_tool)
           /\ UNCHANGED <<threshold, clock, other_vars>>

\* memory.py:77-83: pop, archive, unlink.  An exception of archive_tool leaves
\* delete_tool at memory.py:80.
DeleteTool(names) ==
    \E name \in names, aw \in WriteOutcomes :
        LET called == Call("delete_tool", name)
        IN /\ IF tools[name].kind = "tool"
              THEN /\ tools' = [tools EXCEPT ![name] = NoTool]
                   /\ order' = RemoveName(order, name)
                   /\ archive' = archive_tool(archive, tools[name], clock, aw)
                   /\ disk' = IF aw = "ok" THEN [disk EXCEPT ![name] = NoTool] ELSE disk
                   /\ admit' = [admit EXCEPT ![name] = NoAdmit]
                   /\ saved' = [saved EXCEPT ![name] = NoTool]
                   /\ last' = [called EXCEPT !.archive_write = aw, !.ok = (aw = "ok"),
                                             !.raised = (aw # "ok")]
              ELSE /\ aw = "ok"
                   /\ last' = [called EXCEPT !.ok = TRUE]
                   /\ UNCHANGED <<tools, order, archive, disk, admit, saved>>
           /\ UNCHANGED <<threshold, clock, other_vars>>

\* One caller working on one capability name, with the clock running.
OneName == {"a"}

Next ==
    \/ Tick
    \/ Integrate(OneName)
    \/ ForceIntegrate(OneName)
    \/ Upgrade(OneName)
    \/ DeleteTool(OneName)

Spec == Init /\ [][Next]_vars

\* The Memory calls alone, on every name and within one second: save_tool
\* (which is all that force_integrate does) and delete_tool, with the
\* Integrator constructed as every caller in the repository constructs it.
InitMem == Init /\ threshold = DefaultThresholdPct

NextMem ==
    \/ ForceIntegrate(Names)
    \/ DeleteTool(Names)

SpecMem == InitMem /\ [][NextMem]_vars

\* -------------------------------------------------------- the Gate, alone
\* Executor.test_tool applied to one tool dict, drawn with any syntax and any
\* suite of up to MaxGateCases cases.
GateCandidates ==
    [name : OneName, code : [syntax_ok : BOOLEAN, ver : {1}],
     test_cases : SeqsUpTo(TestCases, MaxGateCases)]

InitGate ==
    /\ InitStore
    /\ threshold = DefaultThresholdPct
    /\ pc = [t \in 1..NThreads |-> "idle"]
    /\ cand = [t \in 1..NThreads |-> NoTool]
    /\ seen = NoSeen
    /\ gate_tool \in GateCandidates
    /\ verdict = <<>>
    /\ InitRest

\* executor.py:62-117
TestTool ==
    /\ verdict = <<>>
    /\ \E test_result \in {test_tool(gate_tool)} :
        /\ verdict' = <<test_result>>
        /\ last' = [Call("test_tool", gate_tool.name) EXCEPT
                        !.tested = TRUE,
                        !.passed = test_result.passed,
                        !.raised = test_result.raised,
                        !.ok = ~test_result.raised]
    /\ UNCHANGED <<threshold, clock, tools, order, disk, archive, admit, saved,
                   pc, cand, seen, gate_tool, rest_vars>>

NextGate == TestTool

SpecGate == InitGate /\ [][NextGate]_vars

\* ------------------------------------------------- threads on one Memory
\* Each thread commits one tool dict that the Gate passed (integrate) or that
\* needs no test (force_integrate): what is left of the call is save_tool,
\* which touches the shared state three times.  The Memory was constructed on
\* a directory that already holds one record per name.
Threads == 1..NThreads

Seed(n) == Rec(n, 0)

InitConc ==
    /\ threshold = DefaultThresholdPct
    /\ clock = 0
    /\ disk = [n \in Names |-> Seed(n)]
    /\ tools = _load_tools(disk)
    /\ order \in {<<"a", "b">>, <<"b", "a">>}
    /\ archive = [k \in ArchiveKeys |-> NoTool]
    /\ admit = [n \in Names |-> NoAdmit]
    /\ saved = tools
    /\ last = NoCall
    /\ pc = [t \in Threads |-> "idle"]
    /\ cand = [t \in Threads |-> NoTool]
    /\ seen = NoSeen
    /\ gate_tool = NoGateTool
    /\ verdict = <<>>
    /\ InitRest

conc_frame == <<threshold, clock, admit, last, gate_tool, verdict, rest_vars>>

\* integrator.py:47-50 / 83 and memory.py:44-47: thread t enters save_tool
\* with a dict of its own, whose content no other thread commits.
StartCommit(t) ==
    /\ pc[t] = "idle"
    /\ \E n \in Names : cand' = [cand EXCEPT ![t] = Rec(n, t)]
    /\ pc' = [pc EXCEPT ![t] = "open"]
    /\ UNCHANGED <<tools, order, disk, archive, saved, seen, conc_frame>>

\* memory.py:48, open(path, "w"): the file is created or truncated.
OpenFile(t) ==
    /\ pc[t] = "open"
    /\ disk' = [disk EXCEPT ![cand[t].name] = EmptyFile]
    /\ pc' = [pc EXCEPT ![t] = "write"]
    /\ UNCHANGED <<tools, order, archive, saved, cand, seen, conc_frame>>

\* memory.py:48, write and close: the bytes go in from offset 0.  Over a file
\* that another writer filled since this one's open, the result is this
\* writer's record, or its record followed by the tail of a longer one.
WriteFile(t) ==
    /\ pc[t] = "write"
    /\ \E result \in {cand[t], GarbledFile} :
        /\ result = GarbledFile => disk[cand[t].name].kind # "empty"
        /\ disk' = [disk EXCEPT ![cand[t].name] = result]
    /\ pc' = [pc EXCEPT ![t] = "assign"]
    /\ UNCHANGED <<tools, order, archive, saved, cand, seen, conc_frame>>

\* memory.py:49
AssignTool(t) ==
    /\ pc[t] = "assign"
    /\ tools' = [tools EXCEPT ![cand[t].name] = cand[t]]
    /\ saved' = [saved EXCEPT ![cand[t].name] = cand[t]]
    /\ pc' = [pc EXCEPT ![t] = "done"]
    /\ UNCHANGED <<order, disk, archive, cand, seen, conc_frame>>

Committing(n) == {t \in Threads : pc[t] \in {"open", "write", "assign"} /\ cand[t].name = n}

\* memory.py:52-53: a reader on the same Memory.
ReadGetTool(n) ==
    /\ seen' = [by |-> "get_tool", name |-> n, got |-> get_tool(n),
                during |-> Committing(n) # {}]
    /\ UNCHANGED <<tools, order, disk, archive, saved, pc, cand, conc_frame>>

\* memory.py:109-117: a reader constructing a Memory on the same base_path.
ReadLoadTools(n) ==
    /\ seen' = [by |-> "_load_tools", name |-> n, got |-> _load_tools(disk)[n],
                during |-> Committing(n) # {}]
    /\ UNCHANGED <<tools, order, disk, archive, saved, pc, cand, conc_frame>>

NextConc ==
    \/ \E t \in Threads : StartCommit(t)
    \/ \E t \in Threads : OpenFile(t)
    \/ \E t \in Threads : WriteFile(t)
    \/ \E t \in Threads : AssignTool(t)
    \/ \E n \in Names : ReadGetTool(n)
    \/ \E n \in Names : ReadLoadTools(n)

SpecConc == InitConc /\ [][NextConc]_vars

\* ------------------------------------------ one candidate through the Gate
\* One tool dict, evaluated by test_tool and handed to integrate any number of
\* times, under every pass_threshold.  Its suite has n cases of which the
\* first p pass, for every n up to MaxCases and every p up to n.
SuiteOf(n, p) == [i \in 1..n |-> IF i <= p THEN PassingCase ELSE FailingCase]
PipeSuites == UNION {{SuiteOf(n, p) : p \in 0..n} : n \in 0..MaxCases}
PipeCandidates ==
    [name : OneName, code : [syntax_ok : BOOLEAN, ver : Versions], test_cases : PipeSuites]

InitPipeline ==
    /\ InitStore
    /\ pc = [t \in 1..NThreads |-> "idle"]
    /\ cand = [t \in 1..NThreads |-> NoTool]
    /\ seen = NoSeen
    /\ gate_tool \in PipeCandidates
    /\ verdict = <<>>
    /\ InitRest

\* integrator.py:31-75 on the candidate.
IntegrateCandidate ==
    /\ IntegrateBody(Call("integrate", gate_tool.name), gate_tool)
    /\ UNCHANGED <<threshold, clock, archive, other_vars>>

NextPipeline ==
    \/ TestTool
    \/ IntegrateCandidate
    \/ DeleteTool(OneName)

SpecPipeline == InitPipeline /\ [][NextPipeline]_vars

\* ------------------------------------------------ test_tool, step by step
\* One call of Executor.test_tool on one tool dict, split where it calls
\* run_code and where run_code returns.  loop.calls are the inputs of the
\* invocations started so far, loop.results the rows appended so far.
InitLoop ==
    /\ InitStore
    /\ threshold = DefaultThresholdPct
    /\ pc = [t \in 1..NThreads |-> "idle"]
    /\ cand = [t \in 1..NThreads |-> NoTool]
    /\ seen = NoSeen
    /\ gate_tool \in GateCandidates
    /\ verdict = <<>>
    /\ InitRest

loop_frame == <<threshold, clock, tools, order, disk, archive, admit, saved, last,
                pc, cand, seen, gate_tool, timeout, run, max_experiences, experiences,
                exp_file, recorded, library, task, best, aux_vars>>

\* executor.py:67-80
EnterTestTool ==
    /\ loop.pc = "idle"
    /\ IF ~_syntax_check(gate_tool.code) \/ gate_tool.test_cases = <<>>
       THEN /\ verdict' = <<test_tool(gate_tool)>>
            /\ loop' = [loop EXCEPT !.pc = "returned"]
       ELSE /\ verdict' = verdict
            /\ loop' = [loop EXCEPT !.pc = "next"]
    /\ UNCHANGED loop_frame

\* executor.py:82-87: the for statement takes the next case and calls run_code.
CallRunCode ==
    /\ loop.pc = "next"
    /\ loop' = [loop EXCEPT
                    !.pc = "running",
                    !.calls = Append(@, gate_tool.test_cases[Len(loop.results) + 1].input)]
    /\ UNCHANGED <<verdict, loop_frame>>

\* executor.py:87-117: run_code returns; the row is appended, or r["ok"]
\* raises; after the last row the verdict is returned.
ReturnRunCode ==
    /\ loop.pc = "running"
    /\ LET tc == gate_tool.test_cases[Len(loop.results) + 1]
           row == test_case_outcome(gate_tool.code, tc)
           results == Append(loop.results, row)
           total == Len(gate_tool.test_cases)
           rate == Pct(CountPassed(results), total)
       IN IF row.raised
          THEN /\ loop' = [loop EXCEPT !.pc = "raised"]
               /\ verdict' = <<[Verdict(FALSE, 0, <<>>, "KeyError", loop.calls)
                                   EXCEPT !.raised = TRUE]>>
          ELSE IF Len(results) < total
          THEN /\ loop' = [loop EXCEPT !.pc = "next", !.results = results]
               /\ verdict' = verdict
          ELSE /\ loop' = [loop EXCEPT !.pc = "returned", !.results = results]
               /\ verdict' = <<Verdict(rate >= GatePct, rate, results, None, loop.calls)>>
    /\ UNCHANGED loop_frame

NextLoop ==
    \/ EnterTestTool
    \/ CallRunCode
    \/ ReturnRunCode

SpecLoop == InitLoop /\ [][NextLoop]_vars

\* --------------------------------------------------- _run, step by step
\* One call of Executor._run after another, for every source text, every
\* behaviour of the procedure and every configured deadline.  The store is
\* the one of a Memory constructed on a directory with one record per name.
Deadlines == {1, DefaultTimeout}

\* NamedTemporaryFile(delete=False) and f.write(script), executor.py:140-144:
\* both complete; the file cannot be created; or the file is created and the
\* write raises (text that has no UTF-8 encoding, a full disk).
ScriptOutcomes == {"ok", "create_fails", "write_fails"}

InitEngine ==
    /\ threshold = DefaultThresholdPct
    /\ clock = 0
    /\ disk = [n \in Names |-> Seed(n)]
    /\ tools = _load_tools(disk)
    /\ order = <<"a", "b">>
    /\ archive = [k \in ArchiveKeys |-> NoTool]
    /\ admit = [n \in Names |-> NoAdmit]
    /\ saved = tools
    /\ last = NoCall
    /\ pc = [t \in Threads |-> "idle"]
    /\ cand = [t \in Threads |-> NoTool]
    /\ seen = NoSeen
    /\ gate_tool = NoGateTool
    /\ verdict = <<>>
    /\ timeout \in Deadlines
    /\ run = NoRun
    /\ loop = NoLoop
    /\ max_experiences = 0
    /\ experiences = <<>>
    /\ exp_file = NoExpFile
    /\ recorded = <<>>
    /\ library = <<>>
    /\ task = {}
    /\ best = <<>>
    /\ InitAux

engine_frame == <<threshold, clock, tools, order, disk, archive, admit, saved, last,
                  pc, cand, seen, gate_tool, verdict, timeout, loop, max_experiences,
                  experiences, exp_file, recorded, library, task, best, aux_vars>>

\* executor.py:140-144, the entry of _run; an exception here leaves _run.
WriteScript ==
    /\ run.pc \in {"idle", "returned", "raised"}
    /\ \E code \in [syntax_ok : BOOLEAN, ver : {1}], beh \in Behaviours,
          script \in ScriptOutcomes :
        run' = [NoRun EXCEPT
                    !.code = code,
                    !.beh = beh,
                    !.tmp = (script # "create_fails"),
                    !.pc = IF script = "ok" THEN "spawn" ELSE "raised"]
    /\ UNCHANGED engine_frame

\* executor.py:148: the interpreter is started, or cannot be (executor.py:171).
Spawn ==
    /\ run.pc = "spawn"
    /\ \/ run' = [run EXCEPT !.pc = "waiting", !.child = "running"]
       \/ run' = [run EXCEPT !.pc = "finally",
                             !.result = Result(FALSE, None, "spawn error")]
    /\ UNCHANGED engine_frame

\* executor.py:148-166: the child ends before the deadline and its output is
\* turned into the Result.
ChildExits ==
    /\ run.pc = "waiting"
    /\ ~_build_runner(run.code, run.beh).timed_out
    /\ run' = [run EXCEPT !.pc = "finally", !.child = "exited",
                          !.result = parse_output(_build_runner(run.code, run.beh))]
    /\ UNCHANGED engine_frame

\* executor.py:152, 168-170: the deadline passes; subprocess.run kills the
\* child and raises TimeoutExpired.
DeadlineExpires ==
    /\ run.pc = "waiting"
    /\ _build_runner(run.code, run.beh).timed_out
    /\ run' = [run EXCEPT !.pc = "finally", !.child = "killed",
                          !.result = _run(_build_runner(run.code, run.beh))]
    /\ UNCHANGED engine_frame

\* executor.py:173-177: os.unlink(tmp), whose exception is dropped; then the
\* Result goes to the caller.
Unlink ==
    /\ run.pc = "finally"
    /\ \E outcome \in {"ok", "fails"} :
        run' = [run EXCEPT !.pc = "returned", !.unlink = outcome,
                           !.tmp = (outcome = "fails")]
    /\ UNCHANGED engine_frame

NextEngine ==
    \/ WriteScript
    \/ Spawn
    \/ ChildExits
    \/ DeadlineExpires
    \/ Unlink

SpecEngine == InitEngine /\ [][NextEngine]_vars

\* subprocess.run waits no longer than the deadline, and nothing between the
\* steps of _run waits at all.
SpecEngineFair ==
    /\ SpecEngine
    /\ WF_vars(Spawn) /\ WF_vars(ChildExits) /\ WF_vars(DeadlineExpires) /\ WF_vars(Unlink)

\* ------------------------------------------------------ the experience log
\* experiences.json holds nothing (no such file, or a zero-length one left by
\* a write that failed) or one JSON list.
ExpList(entries) == [kind |-> "list", entries |-> entries]

\* memory.py:119-125 and the `or []` of memory.py:35
_load_json(file) == IF file.kind = "list" THEN file.entries ELSE <<>>

\* The last n elements of a sequence.
LastN(q, n) == IF Len(q) <= n THEN q ELSE SubSeq(q, Len(q) - n + 1, Len(q))

\* deque(iterable, maxlen), memory.py:34-37
deque(entries, maxlen) == LastN(entries, maxlen)

deque_append_keep_oldest(q, e, maxlen) ==
    IF Len(q) < maxlen THEN Append(q, e) ELSE q

\* deque.append on a deque with maxlen, memory.py:89: a full deque drops its
\* leftmost element; one of maxlen 0 stays empty.
deque_append(q, e, maxlen) ==
    IF maxlen = 0 THEN <<>>
    ELSE IF Len(q) < maxlen THEN Append(q, e)
    ELSE Append(Tail(q), e)

\* memory.py:127-131: write_text on experiences.json; an exception is logged
\* and dropped.
_save_json(old, data, wr) ==
    CASE wr = "ok"         -> ExpList(data)
      [] wr = "fail_open"  -> old
      [] wr = "fail_write" -> [kind |-> "empty", entries |-> <<>>]

\* Experiences are numbered in the order they are recorded; a Memory starts
\* on the file an earlier one left, which may hold more than maxlen entries.
Persisted == {NoExpFile} \cup {ExpList([i \in 1..k |-> i]) : k \in 1..(MaxRecorded - 1)}

InitLog ==
    /\ InitStore
    /\ threshold = DefaultThresholdPct
    /\ pc = [t \in 1..NThreads |-> "idle"]
    /\ cand = [t \in 1..NThreads |-> NoTool]
    /\ seen = NoSeen
    /\ gate_tool = NoGateTool
    /\ verdict = <<>>
    /\ timeout = DefaultTimeout
    /\ run = NoRun
    /\ loop = NoLoop
    /\ max_experiences \in 0..MaxCapacity
    /\ exp_file \in Persisted
    /\ experiences = deque(_load_json(exp_file), max_experiences)
    /\ recorded = _load_json(exp_file)
    /\ library = <<>>
    /\ task = {}
    /\ best = <<>>
    /\ InitAux

\* memory.py:87-90
Store ==
    /\ Len(recorded) < MaxRecorded
    /\ \E wr \in WriteOutcomes :
        LET e == Len(recorded) + 1
            log == deque_append(experiences, e, max_experiences)
        IN /\ experiences' = log
           /\ exp_file' = _save_json(exp_file, log, wr)
           /\ recorded' = Append(recorded, e)
           /\ last' = [Call("store", "") EXCEPT !.write = wr, !.ok = TRUE]
    /\ UNCHANGED <<threshold, clock, tools, order, disk, archive, admit, saved,
                   pc, cand, seen, gate_tool, verdict, timeout, run, loop,
                   max_experiences, library, task, best, aux_vars>>

NextLog == Store

SpecLog == InitLog /\ [][NextLog]_vars

\* ---------------------------------------------------------- best_tool_for
\* Words are sequences of letters.  The text of a tool is the set of the
\* whitespace-separated words of f"{name} {description}", lowercased; the
\* task is the set of its own.
Vocabulary == {<<"a", "d">>, <<"a", "d", "d">>, <<"d", "o">>, <<"d", "o", "t">>,
               <<"t", "o">>}

\* w in t, for strings
IsSubstring(w, t) ==
    \E i \in 0..(Len(t) - Len(w)) : SubSeq(t, i + 1, i + Len(w)) = w

Texts == {T \in SUBSET Vocabulary : Cardinality(T) <= MaxTextTokens}
Entry(n, text) == [name |-> n, text |-> text]
NoEntry == [name |-> "", text |-> {}]
Libraries ==
    {<<>>} \cup {<<Entry("a", T)>> : T \in Texts}
           \cup {<<Entry("a", T), Entry("b", U)>> : T \in Texts, U \in Texts}

\* memory.py:64: w in text holds when w lies inside one word of the text, w
\* having no white space in it.
score(words, tool) ==
    Cardinality({w \in words : \E t \in tool.text : IsSubstring(w, t)})

\* memory.py:61-67: the loop keeps the first tool of the highest score.
RECURSIVE scan(_, _, _, _)
scan(lib, words, best_so_far, best_score) ==
    IF lib = <<>> THEN <<best_so_far, best_score>>
    ELSE IF score(words, Head(lib)) > best_score
    THEN scan(Tail(lib), words, Head(lib), score(words, Head(lib)))
    ELSE scan(Tail(lib), words, best_so_far, best_score)

\* memory.py:58-68
best_tool_for(lib, words) ==
    LET found == scan(lib, words, NoEntry, 0)
    IN IF found[2] >= ScoreFloor THEN found[1] ELSE NoEntry

InitSelect ==
    /\ InitStore
    /\ threshold = DefaultThresholdPct
    /\ pc = [t \in 1..NThreads |-> "idle"]
    /\ cand = [t \in 1..NThreads |-> NoTool]
    /\ seen = NoSeen
    /\ gate_tool = NoGateTool
    /\ verdict = <<>>
    /\ timeout = DefaultTimeout
    /\ run = NoRun
    /\ loop = NoLoop
    /\ max_experiences = 0
    /\ experiences = <<>>
    /\ exp_file = NoExpFile
    /\ recorded = <<>>
    /\ library \in Libraries
    /\ task \in SUBSET Vocabulary
    /\ best = <<>>
    /\ InitAux

BestToolFor ==
    /\ best = <<>>
    /\ best' = <<best_tool_for(library, task)>>
    /\ UNCHANGED <<threshold, clock, tools, order, disk, archive, admit, saved, last,
                   pc, cand, seen, gate_tool, verdict, timeout, run, loop,
                   max_experiences, experiences, exp_file, recorded, library, task,
                   aux_vars>>

NextSelect == BestToolFor

SpecSelect == InitSelect /\ [][NextSelect]_vars

\* ------------------------------------------------------ concurrent store
\* Several threads calling store on one Memory; store is split where the
\* interpreter or the file system can interleave it: the append, the copy
\* list(self._experiences), and the open and the write of write_text.
GarbledLog == [kind |-> "garbled", entries |-> <<>>]

InitLogConc ==
    /\ InitStore
    /\ threshold = DefaultThresholdPct
    /\ pc = [t \in Threads |-> "idle"]
    /\ cand = [t \in Threads |-> NoTool]
    /\ seen = NoSeen
    /\ gate_tool = NoGateTool
    /\ verdict = <<>>
    /\ timeout = DefaultTimeout
    /\ run = NoRun
    /\ loop = NoLoop
    /\ max_experiences \in 0..MaxCapacity
    /\ experiences = <<>>
    /\ exp_file = NoExpFile
    /\ recorded = <<>>
    /\ library = <<>>
    /\ task = {}
    /\ best = <<>>
    /\ updated = <<>>
    /\ snap = [t \in Threads |-> <<>>]
    /\ probe = NoProbe

logconc_frame == <<threshold, clock, tools, order, disk, archive, admit, saved, last,
                   cand, seen, gate_tool, verdict, timeout, run, loop,
                   max_experiences, library, task, best, updated, probe>>

\* memory.py:88-89
AppendExperience(t) ==
    /\ pc[t] = "idle"
    /\ Len(recorded) < MaxRecorded
    /\ experiences' = deque_append(experiences, Len(recorded) + 1, max_experiences)
    /\ recorded' = Append(recorded, Len(recorded) + 1)
    /\ pc' = [pc EXCEPT ![t] = "copy"]
    /\ UNCHANGED <<exp_file, snap, logconc_frame>>

\* memory.py:90, the argument list(self._experiences)
CopyLog(t) ==
    /\ pc[t] = "copy"
    /\ snap' = [snap EXCEPT ![t] = experiences]
    /\ pc' = [pc EXCEPT ![t] = "open"]
    /\ UNCHANGED <<experiences, exp_file, recorded, logconc_frame>>

\* memory.py:129, open(path, "w"): the file is created or truncated.
OpenLog(t) ==
    /\ pc[t] = "open"
    /\ exp_file' = [kind |-> "empty", entries |-> <<>>]
    /\ pc' = [pc EXCEPT ![t] = "write"]
    /\ UNCHANGED <<experiences, recorded, snap, logconc_frame>>

\* memory.py:129, write and close, after which store returns.  The bytes go
\* in from offset 0: over a longer list that another writer put there since
\* this one's open, the result is this writer's list followed by the tail of
\* the longer one.
WriteLog(t) ==
    /\ pc[t] = "write"
    /\ \E result \in {ExpList(snap[t]), GarbledLog} :
        /\ result = GarbledLog =>
               \/ exp_file.kind = "garbled"
               \/ exp_file.kind = "list" /\ Len(exp_file.entries) > Len(snap[t])
        /\ (exp_file.kind = "list" /\ Len(exp_file.entries) > Len(snap[t])) =>
               result = GarbledLog
        /\ exp_file' = result
    /\ pc' = [pc EXCEPT ![t] = "idle"]
    /\ UNCHANGED <<experiences, recorded, snap, logconc_frame>>

NextLogConc ==
    \/ \E t \in Threads : AppendExperience(t)
    \/ \E t \in Threads : CopyLog(t)
    \/ \E t \in Threads : OpenLog(t)
    \/ \E t \in Threads : WriteLog(t)

SpecLogConc == InitLogConc /\ [][NextLogConc]_vars

\* ------------------------------------------- best_tool_for after save_tool
\* save_tool calls on the names of the library, each stamping updated_at,
\* followed by one best_tool_for.
\* memory.py:49 on the values of the dict: a key the dict has keeps its
\* position, a new key goes last.
save_entry(lib, e) ==
    IF \E i \in 1..Len(lib) : lib[i].name = e.name
    THEN [i \in 1..Len(lib) |-> IF lib[i].name = e.name THEN e ELSE lib[i]]
    ELSE Append(lib, e)

\* memory.py:45: the name becomes the one with the latest updated_at.
touch(upd, n) == Append(SelectSeq(upd, LAMBDA x : x # n), n)

InitRank ==
    /\ InitStore
    /\ threshold = DefaultThresholdPct
    /\ pc = [t \in 1..NThreads |-> "idle"]
    /\ cand = [t \in 1..NThreads |-> NoTool]
    /\ seen = NoSeen
    /\ gate_tool = NoGateTool
    /\ verdict = <<>>
    /\ timeout = DefaultTimeout
    /\ run = NoRun
    /\ loop = NoLoop
    /\ max_experiences = 0
    /\ experiences = <<>>
    /\ exp_file = NoExpFile
    /\ recorded = <<>>
    /\ library = <<>>
    /\ task \in SUBSET Vocabulary
    /\ best = <<>>
    /\ updated = <<>>
    /\ snap = [t \in 1..NThreads |-> <<>>]
    /\ probe = NoProbe

rank_frame == <<threshold, clock, tools, order, disk, archive, admit, saved,
                pc, cand, seen, gate_tool, verdict, timeout, run, loop,
                max_experiences, experiences, exp_file, recorded, task, snap, probe>>

\* memory.py:43-50
SaveEntry ==
    /\ best = <<>>
    /\ \E n \in Names, text \in Texts :
        /\ library' = save_entry(library, Entry(n, text))
        /\ updated' = touch(updated, n)
        /\ last' = [Call("save_tool", n) EXCEPT !.ok = TRUE]
    /\ UNCHANGED <<best, rank_frame>>

\* memory.py:58-68
QueryBest ==
    /\ best = <<>>
    /\ best' = <<best_tool_for(library, task)>>
    /\ last' = [Call("best_tool_for", "") EXCEPT !.ok = TRUE]
    /\ UNCHANGED <<library, updated, rank_frame>>

NextRank == SaveEntry \/ QueryBest

SpecRank == InitRank /\ [][NextRank]_vars

\* ------------------------------------------------- run_tool and run_code
\* The two public calls that run a procedure, each as one whole call.  The
\* interpreter may fail to start (executor.py:171-172).
ToolDicts == [has_code : BOOLEAN, has_func_name : BOOLEAN,
              code : [syntax_ok : BOOLEAN, ver : {1}]]
SpawnError == Result(FALSE, None, "spawn error")

InitCall == InitEngine

call_frame == <<threshold, clock, tools, order, disk, archive, admit, saved,
                pc, cand, seen, gate_tool, verdict, timeout, loop, max_experiences,
                experiences, exp_file, recorded, library, task, best, aux_vars>>

\* executor.py:38-52
RunTool ==
    /\ \E tool \in ToolDicts, beh \in Behaviours, started \in BOOLEAN :
        /\ ~(tool.has_code /\ tool.has_func_name) => started
        /\ \E r \in {IF started THEN run_tool(tool, beh) ELSE SpawnError} :
            run' = [NoRun EXCEPT !.pc = "returned", !.code = tool.code, !.beh = beh,
                                 !.result = r]
        /\ last' = [Call("run_tool", "") EXCEPT
                        !.ok = tool.has_code /\ tool.has_func_name]
    /\ UNCHANGED call_frame

\* executor.py:54-60
RunCode ==
    /\ \E code \in [syntax_ok : BOOLEAN, ver : {1}], beh \in Behaviours,
          started \in BOOLEAN :
        /\ \E r \in {IF started THEN run_code(code, beh) ELSE SpawnError} :
            run' = [NoRun EXCEPT !.pc = "returned", !.code = code, !.beh = beh,
                                 !.result = r]
        /\ last' = [Call("run_code", "") EXCEPT !.ok = TRUE]
    /\ UNCHANGED call_frame

NextCall == RunTool \/ RunCode

SpecCall == InitCall /\ [][NextCall]_vars

\* ---------------------------------------------------- actual_success rule
\* The rule of executor.py:88-92 on every Result dict a run can hand to it,
\* applied to two test cases with the same input that declare opposite
\* expect_success.  A child that prints an envelope of its own and exits
\* decides every key of the Result but "elapsed", which _run always adds.
ProbeOutputs == {"dict_success_true", "dict_success_false", "dict", "value", "text",
                 None, Absent}
ProbeErrors == {None, Absent, "exception"}
ProbeResults == [has_ok : BOOLEAN, ok : BOOLEAN, output : ProbeOutputs,
                 error : ProbeErrors, elapsed : {TRUE}]
OppositeCases == <<[input |-> "returns_value", expect_success |-> TRUE],
                   [input |-> "returns_value", expect_success |-> FALSE]>>

InitRule ==
    /\ InitStore
    /\ threshold = DefaultThresholdPct
    /\ pc = [t \in 1..NThreads |-> "idle"]
    /\ cand = [t \in 1..NThreads |-> NoTool]
    /\ seen = NoSeen
    /\ gate_tool = NoGateTool
    /\ verdict = <<>>
    /\ timeout = DefaultTimeout
    /\ run = NoRun
    /\ loop = NoLoop
    /\ max_experiences = 0
    /\ experiences = <<>>
    /\ exp_file = NoExpFile
    /\ recorded = <<>>
    /\ library = <<>>
    /\ task = {}
    /\ best = <<>>
    /\ updated = <<>>
    /\ snap = [t \in 1..NThreads |-> <<>>]
    /\ \E r \in ProbeResults : probe = [pc |-> "returned", r |-> r, rows |-> <<>>]

\* executor.py:87-103 for both cases
DeriveRows ==
    /\ probe.pc = "returned"
    /\ probe' = IF probe.r.has_ok
                THEN [probe EXCEPT !.pc = "derived",
                                   !.rows = [i \in 1..2 |-> case_row(probe.r, OppositeCases[i])]]
                ELSE [probe EXCEPT !.pc = "raised"]
    /\ UNCHANGED <<threshold, clock, tools, order, disk, archive, admit, saved, last,
                   pc, cand, seen, gate_tool, verdict, timeout, run, loop,
                   max_experiences, experiences, exp_file, recorded, library, task,
                   best, updated, snap>>

NextRule == DeriveRows

SpecRule == InitRule /\ [][NextRule]_vars

\* ================================================================== claims
ArchiveEntries(arch) == {k \in ArchiveKeys : arch[k].kind # "none"}

\* C1: every capability held in the store was committed by an integrate call
\* whose verdict had pass_rate >= the Integrator's pass threshold, or by a
\* force_integrate call.
C1_AdmittedAtThreshold ==
    \A n \in Names :
        get_tool(n).kind = "tool" =>
            \/ admit[n].via = "force"
            \/ admit[n].via = "gate" /\ admit[n].rate >= threshold

\* C2: an integrate call whose verdict is not passed leaves get_tool,
\* all_tools, the persisted records and the archive as they were, and
\* returns ok = false.
C2_RejectedWritesNothing ==
    [][(last'.op = "integrate" /\ ~last'.passed) =>
           /\ tools' = tools
           /\ order' = order
           /\ disk' = disk
           /\ archive' = archive
           /\ ~last'.ok /\ ~last'.raised]_vars

C2_Witness ==
    /\ last.op = "integrate" /\ last.tested /\ ~last.passed
    /\ get_tool(last.name).kind = "tool"

\* C3: a commit of a passed candidate over a stored capability of the same
\* name leaves the full prior definition in the archive and the candidate in
\* the store.
C3_PriorIsArchived ==
    [][(last'.op \in {"integrate", "upgrade"} /\ last'.ok
            /\ get_tool(last'.name).kind = "tool") =>
           /\ \E k \in ArchiveKeys : archive'[k] = get_tool(last'.name)
           /\ tools'[last'.name].kind = "tool"]_vars

\* C4: the store holds exactly the names saved and not deleted afterwards,
\* each once, each with the definition of its latest completed save_tool.
C4_StoreHoldsLastSaved ==
    /\ \A n \in Names : get_tool(n) = saved[n]
    /\ {order[i] : i \in 1..Len(order)} = {n \in Names : saved[n].kind = "tool"}
    /\ Len(all_tools) = Cardinality({n \in Names : saved[n].kind = "tool"})
    /\ \A i \in 1..Len(all_tools) : all_tools[i] = saved[order[i]]

C4_Witness ==
    /\ last.op = "delete_tool" /\ last.archive_write = "ok"
    /\ \E n \in Names : get_tool(n).kind = "tool" /\ get_tool(n).ver = 2
    /\ \E n \in Names : get_tool(n).kind = "none" /\ disk[n].kind = "none"
                        /\ ArchiveEntries(archive) # {}

\* C5: every archive_tool call that completes adds one entry and leaves every
\* earlier entry as it was.
C5_ArchiveAppendOnly ==
    [][last'.archive_write = "ok" =>
           /\ \A k \in ArchiveEntries(archive) : archive'[k] = archive[k]
           /\ Cardinality(ArchiveEntries(archive')) =
                  Cardinality(ArchiveEntries(archive)) + 1]_vars

\* C6: when NThreads concurrent commits to one name, each with its own
\* version, have all returned, get_tool(name) is one of the candidates and the
\* archive holds NThreads entries.
C6_ConcurrentCommits ==
    ((\A t \in Threads : pc[t] = "done")
        /\ (\A t, u \in Threads : cand[t].name = cand[u].name)) =>
        /\ get_tool(cand[1].name) \in {cand[t] : t \in Threads}
        /\ Cardinality(ArchiveEntries(archive)) = NThreads

\* C7: a reader that runs while a commit to a name is in progress is handed
\* a whole definition of that name: the old one or a committed candidate.
C7_ReaderSeesWhole ==
    seen.during =>
        /\ seen.got.kind = "tool"
        /\ seen.got.name = seen.name
        /\ seen.got \in {Seed(seen.name)} \cup {cand[t] : t \in Threads}

\* C8: a name that has a capability, in memory or in its persisted record,
\* keeps it through every call other than delete_tool.
C8_KeepsCapability ==
    [][last'.op # "delete_tool" =>
           \A n \in Names :
               /\ tools[n].kind = "tool" => tools'[n].kind = "tool"
               /\ _load_tools(disk)[n].kind = "tool" =>
                      _load_tools(disk')[n].kind = "tool"]_vars

\* C9: when the write of save_tool raises during a commit, the call raises
\* instead of returning ok, and get_tool returns what it returned before.
C9_FailedWriteEscalates ==
    [][(last'.op \in {"integrate", "force_integrate", "upgrade"}
            /\ last'.write \in {"fail_open", "fail_write"}) =>
           /\ last'.raised /\ ~last'.ok
           /\ \A n \in Names : tools'[n] = get_tool(n)]_vars

C9_Witness ==
    /\ last.op = "integrate" /\ last.write = "fail_write" /\ last.raised
    /\ get_tool(last.name).kind = "tool"
    /\ disk[last.name].kind = "empty"

\* C10: for a tool dict whose code fails the syntax check, test_tool returns
\* passed = false, pass_rate = 0.0, no results and an error, and has called
\* run_code zero times, whatever its test cases.
C10_SyntaxErrorShortCircuits ==
    (verdict # <<>> /\ ~gate_tool.code.syntax_ok) =>
        /\ ~verdict[1].passed
        /\ verdict[1].pass_rate = 0
        /\ verdict[1].results = <<>>
        /\ verdict[1].error # None
        /\ verdict[1].calls = <<>>

C10_Witness ==
    /\ verdict # <<>>
    /\ ~gate_tool.code.syntax_ok
    /\ Len(gate_tool.test_cases) = MaxGateCases
    /\ verdict[1].error = "SyntaxError"

C12_AcceptedIffAtThreshold ==
    (last.op = "integrate" /\ last.write = "ok" /\ gate_tool.code.syntax_ok
        /\ Len(gate_tool.test_cases) >= 1) =>
        LET p == CountPassed([i \in 1..Len(gate_tool.test_cases) |->
                      test_case_outcome(gate_tool.code, gate_tool.test_cases[i])])
        IN (last.passed /\ last.ok) <=> (Pct(p, Len(gate_tool.test_cases)) >= threshold)

\* C18: an integrate call on the candidate that is already stored adds one
\* archive entry and leaves get_tool(name) with the candidate's content.
C18_RecommitArchivesOnce ==
    [][(last'.op = "integrate" /\ last'.ok
            /\ get_tool(gate_tool.name) = stamp(gate_tool)) =>
           /\ Cardinality(ArchiveEntries(archive')) =
                  Cardinality(ArchiveEntries(archive)) + 1
           /\ tools'[gate_tool.name] = stamp(gate_tool)]_vars

\* C13: one evaluation of a candidate with valid syntax and N test cases
\* calls run_code N times, one at a time and in declared order, and ends with
\* a verdict whose results are the N rows in that order.
C13_RunsEachCaseOnceInOrder ==
    gate_tool.code.syntax_ok =>
        /\ Len(loop.calls) - Len(loop.results) \in {0, 1}
        /\ Len(loop.calls) <= Len(gate_tool.test_cases)
        /\ \A i \in 1..Len(loop.calls) : loop.calls[i] = gate_tool.test_cases[i].input
        /\ loop.pc \in {"returned", "raised"} =>
               /\ Len(loop.calls) = Len(gate_tool.test_cases)
               /\ ~verdict[1].raised
               /\ Len(verdict[1].results) = Len(gate_tool.test_cases)
               /\ \A i \in 1..Len(verdict[1].results) :
                      verdict[1].results[i].ran = gate_tool.test_cases[i].input

\* C14: test_tool returns a verdict for every tool dict, whatever its code
\* does in the child; it never raises.
C14_NeverRaises ==
    verdict # <<>> => ~verdict[1].raised

\* C15: a run whose procedure never returns ends: the child is killed at the
\* deadline and _run returns ok = false with the error "timed out after <the
\* configured timeout>s"; get_tool and all_tools give what they gave before.
C15_HangEndsInTimeout ==
    /\ [](run.pc = "waiting" /\ _build_runner(run.code, run.beh).timed_out
            => <>(run.pc = "returned"))
    /\ []((run.pc = "returned" /\ run.child # "none" /\ run.code.syntax_ok
                /\ run.beh = "hangs") =>
            /\ run.child = "killed"
            /\ run.result.has_ok /\ ~run.result.ok
            /\ run.result.error = "timed out after " \o ToString(timeout) \o "s")
    /\ [][tools' = tools /\ order' = order]_vars

C15_Witness ==
    /\ run.pc = "returned" /\ run.code.syntax_ok /\ run.beh = "hangs"
    /\ run.child = "killed"
    /\ timeout = 1
    /\ run.result.error = "timed out after 1s"
    /\ get_tool("a") = Seed("a")

\* C16: when a call of _run is over, the temporary file it created is gone,
\* unless the removal itself failed; and the Result is the same whether the
\* removal failed or not.
C16_TempFileRemoved ==
    /\ (run.pc \in {"returned", "raised"} /\ run.unlink # "fails") => ~run.tmp
    /\ run.pc = "returned" =>
           run.result = IF run.child = "none"
                        THEN Result(FALSE, None, "spawn error")
                        ELSE _run(_build_runner(run.code, run.beh))

\* C17: delete_tool on a stored name leaves get_tool(name) absent, all_tools
\* without it and the definition it removed in the archive, also when the
\* archive write fails; on a name that is not stored it changes nothing.
C17_DeleteArchivesThenRemoves ==
    [][last'.op = "delete_tool" =>
           IF get_tool(last'.name).kind = "tool"
           THEN /\ tools'[last'.name].kind = "none"
                /\ \A i \in 1..Len(order') : order'[i] # last'.name
                /\ \E k \in ArchiveKeys : archive'[k] = get_tool(last'.name)
           ELSE /\ tools' = tools /\ order' = order
                /\ disk' = disk /\ archive' = archive]_vars

\* C19: the experience log holds at most max_experiences entries, and they
\* are the min(n, max_experiences) most recently recorded of the n recorded
\* so far, oldest first.
C19_LogKeepsNewest ==
    /\ Len(experiences) <= max_experiences
    /\ Len(experiences) = IF Len(recorded) < max_experiences
                          THEN Len(recorded) ELSE max_experiences
    /\ \A i \in 1..Len(experiences) :
           experiences[i] = recorded[Len(recorded) - Len(experiences) + i]

C19_Witness ==
    /\ last.op = "store"
    /\ max_experiences = MaxCapacity
    /\ Len(recorded) = MaxRecorded
    /\ exp_file.kind # "list"
    /\ experiences[1] = MaxRecorded - MaxCapacity + 1

\* C20: best_tool_for returns a capability that shares the most whole words
\* with the task when that number is >= 2, and nothing otherwise; it never
\* returns a capability that shares fewer than 2 whole words with the task.
C20_WholeWordScore ==
    best # <<>> =>
        LET shared(tool) == Cardinality(task \cap tool.text)
            top == {i \in 1..Len(library) :
                       \A j \in 1..Len(library) : shared(library[i]) >= shared(library[j])}
        IN IF \E i \in top : shared(library[i]) >= ScoreFloor
           THEN \E i \in top : best[1] = library[i]
           ELSE best[1] = NoEntry

\* C28: an upgrade call whose new_tool the gate rejects writes nothing: the
\* stored capability, all_tools and the archive are after the call what they
\* were before it.
C28_RejectedUpgradeWritesNothing ==
    [][(last'.op = "upgrade" /\ last'.tested /\ ~last'.passed) =>
           /\ tools' = tools
           /\ order' = order
           /\ archive' = archive]_vars

\* C24: a successful commit over a stored capability leaves under that name a
\* definition whose version is strictly greater than the one it replaced.
C24_CommitBumpsVersion ==
    [][(last'.op \in {"integrate", "force_integrate", "upgrade"} /\ last'.ok
            /\ get_tool(last'.name).kind = "tool") =>
           tools'[last'.name].ver > tools[last'.name].ver]_vars

\* C29: whenever no save_tool is in progress on a name, the persisted record
\* of that name, as _load_tools reads it, is the definition that get_tool
\* returns for it.
C29_MapAgreesWithRecords ==
    \A n \in Names :
        Committing(n) = {} => _load_tools(disk)[n] = get_tool(n)

\* C26: the actual_success of a row follows one precedence rule: a Result
\* with ok = false gives false whatever its output; a Result with ok = true
\* whose output is a success/output mapping gives the mapping's own success
\* indicator, and true when the mapping has none.
C26_PrecedenceRule ==
    probe.pc = "derived" =>
        \A i \in 1..2 :
            /\ ~probe.r.ok => ~probe.rows[i].actual_success
            /\ (probe.r.ok /\ probe.r.output = "dict_success_true") =>
                   probe.rows[i].actual_success
            /\ (probe.r.ok /\ probe.r.output = "dict_success_false") =>
                   ~probe.rows[i].actual_success
            /\ (probe.r.ok /\ probe.r.output = "dict") => probe.rows[i].actual_success

C26_Witness ==
    /\ probe.pc = "derived"
    /\ probe.r.ok /\ probe.r.output = "dict_success_false"
    /\ ~probe.rows[1].actual_success /\ ~probe.rows[1].passed /\ probe.rows[2].passed

\* C30: two test cases that get the same Result and declare opposite
\* expect_success get the same actual_success, and exactly one of them passes.
C30_IndependentOfExpectation ==
    probe.pc = "derived" =>
        /\ probe.rows[1].actual_success = probe.rows[2].actual_success
        /\ probe.rows[1].passed # probe.rows[2].passed

\* C22: every Result that run_tool or run_code returns has the four keys ok,
\* output, error and elapsed.
C22_UniformEnvelope ==
    run.pc = "returned" =>
        /\ run.result.has_ok
        /\ run.result.output # Absent
        /\ run.result.error # Absent
        /\ run.result.elapsed

\* Procedures whose entry point runs to completion and returns.
Completes == {"returns_success", "returns_failure", "returns_dict", "returns_value",
              "returns_none"}

\* C27: a Result has ok = true only if the code compiled, the entry point
\* returned without raising and the child ended before the deadline.
C27_OkMeansCompleted ==
    (run.pc = "returned" /\ run.result.has_ok /\ run.result.ok) =>
        /\ run.code.syntax_ok
        /\ run.beh \in Completes
        /\ run.child = "exited"

\* C25: the Result of a child that ended before the deadline follows from
\* its standard output: nothing there gives ok = false with the standard
\* error, or "no output", as the error; output that is not the envelope gives
\* ok = true with the text as output; the envelope is returned with elapsed
\* added.
C25_ResultFromStdout ==
    (run.pc = "returned" /\ run.child = "exited") =>
        LET child == _build_runner(run.code, run.beh)
            r == run.result
        IN CASE child.stdout.kind = "none" ->
                    /\ r.has_ok /\ ~r.ok
                    /\ r.error = IF child.stderr # "" THEN child.stderr ELSE "no output"
             [] child.stdout.kind = "envelope" ->
                    /\ r.has_ok /\ r.ok = child.stdout.ok
                    /\ r.output = child.stdout.output
                    /\ r.error = child.stdout.error
                    /\ r.elapsed
             [] OTHER ->
                    /\ r.has_ok /\ r.ok
                    /\ r.output = "text"

\* C21: when several stored capabilities have the highest score for the task
\* and that score is >= 2, best_tool_for returns the one of them that was
\* saved last.
C21_TieGoesToLatest ==
    best # <<>> =>
        LET top == {i \in 1..Len(library) :
                       \A j \in 1..Len(library) :
                           score(task, library[i]) >= score(task, library[j])}
            at(n) == CHOOSE k \in 1..Len(updated) : updated[k] = n
        IN (Cardinality(top) >= 2 /\ \A i \in top : score(task, library[i]) >= ScoreFloor) =>
               \E i \in top :
                   /\ best[1] = library[i]
                   /\ \A j \in top : at(library[j].name) <= at(library[i].name)

\* C23: once every store call has returned, the in-memory log holds the most
\* recently recorded experiences, within capacity, each once and in recording
\* order, and the persisted log holds the same entries in the same order.
C23_StoreIsSerialized ==
    ((\A t \in Threads : pc[t] = "idle") /\ recorded # <<>>) =>
        /\ experiences = deque(recorded, max_experiences)
        /\ exp_file = ExpList(experiences)

====
